---- MODULE Spec2Model ----
(***************************************************************************)
(* Shopify review scraper: the run coordinator (scraper.py main, app.py    *)
(* "Fetch Reviews" handler), the collection enumerator                     *)
(* (fetch_shopify_apps), the date normalizer (parse_review_date) and the   *)
(* review pager (fetch_reviews) with its retrying page fetcher.            *)
(*                                                                         *)
(* Strings are sequences of tokens.  A token is a piece of text that is    *)
(* never split by the operations of the program: the scheme and host       *)
(* "https://apps.shopify.com" (it holds no "/reviews", no "/partners/"     *)
(* and no "?"), "/", "?", the words "reviews" and "partners", and other    *)
(* text free of "/" and "?".                                               *)
(***************************************************************************)
EXTENDS Naturals, Integers, Sequences, FiniteSets, TLC

\* ------------------------------------------------------------------ bounds
MaxDay == 2          \* number of calendar days a window bound is drawn from
MaxNodes == 3        \* most review nodes the server serves in one run
MaxApps == 2         \* most items on a developer page

\* ------------------------------------------------------- program constants
RetryTotal == 5      \* Retry(total=5)
TimeMin == 0         \* time.min, 00:00:00, in seconds since midnight
TimeMax == 86399     \* time.max, 23:59:59(.999999), in seconds since midnight

status_forcelist == {429, 500, 502, 503, 504}

Host == "https://apps.shopify.com"

\* -------------------------------------------------------- string helpers
\* t in s
Contains(s, t) ==
    \E i \in 1..(Len(s) + 1 - Len(t)) : SubSeq(s, i, i + Len(t) - 1) = t

\* s.endswith(t)
EndsWith(s, t) ==
    /\ Len(s) >= Len(t)
    /\ SubSeq(s, Len(s) - Len(t) + 1, Len(s)) = t

\* s.startswith('http')
StartsWithHttp(s) == Len(s) >= 1 /\ s[1] = Host

\* s.split(t)[0]
SplitFirst(s, t) ==
    IF Contains(s, t)
    THEN LET i == CHOOSE j \in 1..(Len(s) + 1 - Len(t)) :
                      /\ SubSeq(s, j, j + Len(t) - 1) = t
                      /\ \A k \in 1..(j - 1) : SubSeq(s, k, k + Len(t) - 1) # t
         IN SubSeq(s, 1, i - 1)
    ELSE s

\* urlparse(url).path: what follows the scheme and host, up to the query
UrlPath(url) ==
    LET rest == IF StartsWithHttp(url) THEN Tail(url) ELSE url
    IN SplitFirst(rest, <<"?">>)

\* [s for s in path.split('/') if s]
RECURSIVE SplitSegments(_, _, _)
SplitSegments(path, cur, acc) ==
    IF path = <<>>
    THEN IF cur = <<>> THEN acc ELSE Append(acc, cur)
    ELSE IF Head(path) = "/"
         THEN SplitSegments(Tail(path), <<>>,
                            IF cur = <<>> THEN acc ELSE Append(acc, cur))
         ELSE SplitSegments(Tail(path), Append(cur, Head(path)), acc)

path_segments(url) == SplitSegments(UrlPath(url), <<>>, <<>>)

\* ------------------------------------------------------------------ dates
\* A datetime is <<day, seconds since midnight>>; None is the empty tuple.
None == <<>>

DtLess(a, b) == a[1] < b[1] \/ (a[1] = b[1] /\ a[2] < b[2])
DtLeq(a, b) == a = b \/ DtLess(a, b)

\* The text of a review's date, "<Month> <day>, <year>": day d of June 2024,
\* or text that is no date.
DateText(d) == <<"June ", ToString(d), ", 2024">>
NoDateText == <<"No review date">>

\* str.strip() of a token sequence: leading and trailing blanks dropped
RECURSIVE LStrip(_)
LStrip(s) == IF s # <<>> /\ Head(s) = " " THEN LStrip(Tail(s)) ELSE s
RECURSIVE RStrip(_)
RStrip(s) ==
    IF s # <<>> /\ s[Len(s)] = " " THEN RStrip(SubSeq(s, 1, Len(s) - 1)) ELSE s
Strip(s) == RStrip(LStrip(s))

\* datetime.strptime(date_str, '%B %d, %Y'), None on ValueError
Strptime(s) ==
    IF /\ Len(s) = 3
       /\ s[1] = "June "
       /\ s[3] = ", 2024"
       /\ \E d \in 1..30 : ToString(d) = s[2]
    THEN <<CHOOSE d \in 1..30 : ToString(d) = s[2], TimeMin>>
    ELSE None

\* s.split(t)[1], for s that holds t
SplitSecond(s, t) ==
    LET i == Len(SplitFirst(s, t)) + Len(t) + 1
    IN SplitFirst(SubSeq(s, i, Len(s)), t)

parse_review_date(date_str) ==
    IF Contains(date_str, <<"Edited">>)
    THEN Strptime(Strip(SplitSecond(date_str, <<"Edited">>)))
    ELSE Strptime(Strip(date_str))

\* ------------------------------------------------------------------ inputs
\* Locators the user can enter.
InputUrls ==
    { <<Host, "/", "partners", "/", "dev">>,
      <<Host, "/", "app", "/", "reviews">>,
      <<Host, "/", "reviews", "-importer", "/", "reviews">>,
      <<Host, "/", "app", "/", "reviews", "?", "sort_by=newest">>,
      <<Host, "/", "app", "/", "reviews", "/">>,
      <<Host, "/", "reviews">>,
      <<Host, "/", "/", "reviews">>,
      <<Host, "/", "app">>,
      <<Host, "/", "app", "?", "q=", "/", "reviews">>,
      <<Host>> }

\* Item entries a developer page can list: the link text and the href.
AppEntries ==
    { [name |-> <<"App A">>, href |-> <<"/", "app-a">>],
      [name |-> <<"App B">>, href |-> <<Host, "/", "app-b", "?", "surface=partners">>] }

SeqsUpTo(S, n) == UNION { [1..k -> S] : k \in 0..n }

\* HTTP outcomes of one attempt; 0 stands for a network-level failure.
NetworkError == 0
ServedStatuses == {200, 404, 503, NetworkError}

\* Calendar days of June 2024: the window bounds, and the review dates,
\* which reach one day past the window days on either side.
WindowDays == 2..(MaxDay + 1)
Days == 1..(MaxDay + 2)
DateTexts == { DateText(d) : d \in Days } \cup { NoDateText }

\* ------------------------------------------------------------------- state
VARIABLES
    entry,                      \* "app" (app.py) or "main" (scraper.py main)
    input_url, start_date, end_date,
    pc,
    developer_gets,             \* GETs of the developer page
    apps, app_i,                \* fetch_shopify_apps result, loop position
    all_collected_reviews,
    app_url, app_name,          \* arguments of the running fetch_reviews
    base_url, page, reviews, reviews_url,
    attempts,                   \* failed HTTP attempts of the running GET
    only_503,                   \* each of them was answered 503
    idx,                        \* position in review_divs of the node scanned
    has_recent_reviews_on_page,
    review_date_str, review_date,
    stop,                       \* which break ended the pager
    served,                     \* review nodes served in this run
    feed_in_window,             \* in-window date texts among the nodes scanned
    feed_sorted_parsed,         \* every scanned date parsed, newest first
    nodes_left,                 \* review_divs holds nodes not yet scanned
    older_page                  \* page of the first too-old review, 0 if none

coordVars == <<entry, input_url, start_date, end_date, developer_gets, apps,
               app_i, all_collected_reviews>>
pagerVars == <<app_url, app_name, base_url, page, reviews, reviews_url,
               attempts, only_503, idx,
               has_recent_reviews_on_page, review_date_str, review_date, stop>>
feedVars == <<feed_in_window, feed_sorted_parsed, nodes_left,
              older_page>>
vars == <<coordVars, pc, pagerVars, served, feedVars>>

\* app.py 24-26: the bare dates become datetimes; scraper.py 263-264: datetime(y, m, d)
StartOf(e, d) == <<d, TimeMin>>
EndOf(e, d) == IF e = "app" THEN <<d, TimeMax>> ELSE <<d, TimeMin>>

Init ==
    /\ entry \in {"app", "main"}
    /\ input_url \in InputUrls
    /\ \E sd \in WindowDays, ed \in WindowDays :
          /\ start_date = StartOf(entry, sd)
          /\ end_date = EndOf(entry, ed)
    /\ pc = "start"
    /\ developer_gets = 0
    /\ apps = <<>>
    /\ app_i = 0
    /\ all_collected_reviews = <<>>
    /\ app_url = <<>>
    /\ app_name = <<>>
    /\ base_url = <<>>
    /\ page = 0
    /\ reviews = <<>>
    /\ reviews_url = <<>>
    /\ attempts = 0
    /\ only_503 = TRUE
    /\ idx = 0
    /\ has_recent_reviews_on_page = FALSE
    /\ review_date_str = NoDateText
    /\ review_date = None
    /\ stop = "none"
    /\ served = 0
    /\ feed_in_window = <<>>
    /\ feed_sorted_parsed = TRUE
    /\ nodes_left = FALSE
    /\ older_page = 0

\* ------------------------------------------------------------ fetch_reviews
InWindow(d) == DtLeq(d, start_date) /\ DtLeq(end_date, d)

\* lines 114-117
BaseUrl(url) ==
    IF Contains(url, <<"/", "reviews">>)
    THEN SplitFirst(url, <<"/", "reviews">>)
    ELSE SplitFirst(url, <<"?">>)

\* line 138
ReviewsUrl(base, n) ==
    base \o <<"/", "reviews", "?", "sort_by=newest", "&page=", ToString(n)>>

\* The call fetch_reviews(url, name, start_date, end_date) up to its loop.
CallFetchReviews(url, name) ==
    /\ app_url' = url
    /\ app_name' = name
    /\ base_url' = BaseUrl(url)
    /\ page' = 1
    /\ reviews' = <<>>
    /\ reviews_url' = ReviewsUrl(BaseUrl(url), 1)
    /\ attempts' = 0
    /\ only_503' = TRUE
    /\ idx' = 0
    /\ has_recent_reviews_on_page' = FALSE
    /\ review_date_str' = NoDateText
    /\ review_date' = None
    /\ stop' = "none"
    /\ feed_in_window' = <<>>
    /\ feed_sorted_parsed' = TRUE
    /\ nodes_left' = FALSE
    /\ older_page' = 0
    /\ pc' = "fetch"

\* A retained review (lines 216-224); the fields the date does not decide
\* are left out.
Record(name, date_str) == [app_name |-> name, date |-> date_str]

IsRetryable(status) == status = NetworkError \/ status \in status_forcelist

\* Mutant: one retry too many.
CanRetry_offByOne(n) == n <= RetryTotal

\* Retry(total=5): after n failed attempts the session tries again while
\* retries are left.
CanRetry(n) == n < RetryTotal

\* Mutant: a date between the two bounds is inside the window whichever of
\* the bounds is the earlier.
Classify_eitherOrder(d) ==
    IF d = None THEN "unparsed"
    ELSE IF DtLess(start_date, d) THEN "too_new"
    ELSE IF \/ DtLeq(d, start_date) /\ DtLeq(end_date, d)
            \/ DtLeq(start_date, d) /\ DtLeq(d, end_date) THEN "in_window"
    ELSE "too_old"

\* Mutant: a node whose date does not parse ends the scan of its page.
Classify_unparsedBreaks(d) ==
    IF d = None THEN "too_old"
    ELSE IF DtLess(start_date, d) THEN "too_new"
    ELSE IF DtLeq(d, start_date) /\ DtLeq(end_date, d) THEN "in_window"
    ELSE "too_old"

\* Mutant: a node whose date does not parse is kept.
Classify_keepsUnparsed(d) ==
    IF d = None THEN "in_window"
    ELSE IF DtLess(start_date, d) THEN "too_new"
    ELSE IF DtLeq(d, start_date) /\ DtLeq(end_date, d) THEN "in_window"
    ELSE "too_old"

\* Mutant: the window end is taken as exclusive.
Classify_strictEnd(d) ==
    IF d = None THEN "unparsed"
    ELSE IF DtLess(start_date, d) THEN "too_new"
    ELSE IF DtLeq(d, start_date) /\ DtLess(end_date, d) THEN "in_window"
    ELSE "too_old"

\* lines 209-232: where the loop takes a node whose date parsed to d.
Classify(d) ==
    IF d = None THEN "unparsed"
    ELSE IF DtLess(start_date, d) THEN "too_new"
    ELSE IF DtLeq(d, start_date) /\ DtLeq(end_date, d) THEN "in_window"
    ELSE "too_old"

\* Mutant: a page without recent reviews never stops the pager.
AfterPage_noRecentIgnored(recent, n, revs, d) ==
    IF revs # <<>> /\ d # None /\ DtLess(d, end_date) THEN "below_window"
    ELSE "continue"

\* Mutant: a page without recent reviews stops the pager on page 1 too.
AfterPage_firstPageToo(recent, n, revs, d) ==
    IF ~recent THEN "no_recent"
    ELSE IF revs # <<>> /\ d # None /\ DtLess(d, end_date) THEN "below_window"
    ELSE "continue"

\* Mutant: the too-old stop compares with the window start.
AfterPage_startBound(recent, n, revs, d) ==
    IF ~recent /\ n > 1 THEN "no_recent"
    ELSE IF revs # <<>> /\ d # None /\ DtLess(d, start_date) THEN "below_window"
    ELSE "continue"

\* lines 237-246: what the pager does after the scan of page n.
AfterPage(recent, n, revs, d) ==
    IF ~recent /\ n > 1 THEN "no_recent"
    ELSE IF revs # <<>> /\ d # None /\ DtLess(d, end_date) THEN "below_window"
    ELSE "continue"

\* Mutant: a first page without nodes does not stop the pager.
FetchOk_emptyFirstPageGoesOn ==
    /\ pc = "fetch"
    /\ \E nodes \in BOOLEAN :
          /\ nodes => served < MaxNodes
          /\ nodes_left' = nodes
          /\ IF nodes
             THEN /\ has_recent_reviews_on_page' = FALSE
                  /\ idx' = 1
                  /\ pc' = "scan"
                  /\ UNCHANGED <<stop, page, reviews_url>>
             ELSE IF page = 1
             THEN /\ page' = page + 1
                  /\ reviews_url' = ReviewsUrl(base_url, page + 1)
                  /\ pc' = "fetch"
                  /\ UNCHANGED <<stop, idx, has_recent_reviews_on_page>>
             ELSE /\ stop' = "no_reviews"
                  /\ pc' = "return"
                  /\ UNCHANGED <<idx, has_recent_reviews_on_page, page,
                                 reviews_url>>
    /\ attempts' = 0
    /\ only_503' = TRUE
    /\ UNCHANGED <<coordVars, app_url, app_name, base_url, reviews,
                   review_date_str, review_date, served, feed_in_window,
                   feed_sorted_parsed, older_page>>

\* Mutant: a page without nodes is asked for again.
FetchOk_emptyPageRefetched ==
    /\ pc = "fetch"
    /\ \E nodes \in BOOLEAN :
          /\ nodes => served < MaxNodes
          /\ nodes_left' = nodes
          /\ IF nodes
             THEN /\ has_recent_reviews_on_page' = FALSE
                  /\ idx' = 1
                  /\ pc' = "scan"
             ELSE /\ pc' = "fetch"
                  /\ UNCHANGED <<idx, has_recent_reviews_on_page>>
    /\ attempts' = 0
    /\ only_503' = TRUE
    /\ UNCHANGED <<coordVars, app_url, app_name, base_url, page, reviews,
                   reviews_url, review_date_str, review_date, stop, served,
                   feed_in_window, feed_sorted_parsed, older_page>>

\* lines 141-161: an attempt answered 200 and the page is parsed; the scan
\* of its nodes begins, or the pager stops on a page without nodes.  The
\* nodes of the page are drawn one by one as the scan reaches them.
FetchOk ==
    /\ pc = "fetch"
    /\ \E nodes \in BOOLEAN :
          /\ nodes => served < MaxNodes
          /\ nodes_left' = nodes
          /\ IF nodes
             THEN /\ has_recent_reviews_on_page' = FALSE
                  /\ idx' = 1
                  /\ pc' = "scan"
                  /\ UNCHANGED stop
             ELSE /\ stop' = "no_reviews"
                  /\ pc' = "return"
                  /\ UNCHANGED <<idx, has_recent_reviews_on_page>>
    /\ attempts' = 0
    /\ only_503' = TRUE
    /\ UNCHANGED <<coordVars, app_url, app_name, base_url, page, reviews,
                   reviews_url, review_date_str, review_date, served,
                   feed_in_window, feed_sorted_parsed, older_page>>

\* lines 123-132, 141: an attempt met a network failure or a status of the
\* force list and the retry budget is not used up: the session tries again.
FetchRetry ==
    /\ pc = "fetch"
    /\ CanRetry(attempts)
    /\ \E status \in ServedStatuses :
          /\ IsRetryable(status)
          /\ only_503' = (only_503 /\ status = 503)
    /\ attempts' = attempts + 1
    /\ UNCHANGED <<coordVars, pc, app_url, app_name, base_url, page, reviews,
                   reviews_url, idx, has_recent_reviews_on_page,
                   review_date_str, review_date, stop, served, feedVars>>

\* lines 141-146: the retries are exhausted, or the status is an error the
\* session does not retry; RequestException is caught and the loop is left.
FetchFailed ==
    /\ pc = "fetch"
    /\ \E status \in ServedStatuses :
          /\ status # 200
          /\ IsRetryable(status) => ~CanRetry(attempts)
    /\ attempts' = 0
    /\ only_503' = TRUE
    /\ stop' = "fetch_failed"
    /\ pc' = "return"
    /\ UNCHANGED <<coordVars, app_url, app_name, base_url, page, reviews,
                   reviews_url, idx, has_recent_reviews_on_page,
                   review_date_str, review_date, served, feedVars>>

\* lines 163-232: one iteration of the loop over the page's nodes, on a node
\* whose date text is date_str; more tells whether a node follows it.
ScanNode ==
    /\ pc = "scan"
    /\ \E date_str \in DateTexts, more \in BOOLEAN :
         LET d == parse_review_date(date_str)
         IN /\ more => served + 1 < MaxNodes
            /\ served' = served + 1
            /\ review_date_str' = date_str
            /\ review_date' = d
            /\ feed_in_window' =
                  IF d # None /\ InWindow(d)
                  THEN Append(feed_in_window, date_str) ELSE feed_in_window
            /\ feed_sorted_parsed' =
                  /\ feed_sorted_parsed
                  /\ d # None
                  /\ (page > 1 \/ idx > 1) => DtLeq(d, review_date)
            /\ nodes_left' = more
            /\ older_page' =
                  IF older_page = 0 /\ Classify(d) = "too_old"
                  THEN page ELSE older_page
            /\ reviews' =
                  IF Classify(d) = "in_window"
                  THEN Append(reviews, Record(app_name, date_str)) ELSE reviews
            /\ has_recent_reviews_on_page' =
                  (has_recent_reviews_on_page
                      \/ Classify(d) \in {"too_new", "in_window"})
            /\ IF Classify(d) # "too_old" /\ more
               THEN /\ idx' = idx + 1
                    /\ pc' = "scan"
               ELSE /\ idx' = 0
                    /\ pc' = "page_end"
    /\ UNCHANGED <<coordVars, app_url, app_name, base_url, page, reviews_url,
                   attempts, only_503, stop>>

\* Mutant: the pager goes on two pages further.
PageEnd_skipsPage ==
    /\ pc = "page_end"
    /\ LET next == AfterPage(has_recent_reviews_on_page, page, reviews,
                              review_date)
       IN IF next = "continue"
          THEN /\ page' = page + 2
               /\ reviews_url' = ReviewsUrl(base_url, page + 2)
               /\ pc' = "fetch"
               /\ UNCHANGED stop
          ELSE /\ stop' = next
               /\ pc' = "return"
               /\ UNCHANGED <<page, reviews_url>>
    /\ nodes_left' = FALSE
    /\ UNCHANGED <<coordVars, app_url, app_name, base_url, reviews,
                   attempts, only_503, idx, has_recent_reviews_on_page,
                   review_date_str, review_date, served, feed_in_window,
                   feed_sorted_parsed, older_page>>

\* lines 237-248: stop, or go on to the next page.
PageEnd ==
    /\ pc = "page_end"
    /\ LET next == AfterPage(has_recent_reviews_on_page, page, reviews,
                              review_date)
       IN IF next = "continue"
          THEN /\ page' = page + 1
               /\ reviews_url' = ReviewsUrl(base_url, page + 1)
               /\ pc' = "fetch"
               /\ UNCHANGED stop
          ELSE /\ stop' = next
               /\ pc' = "return"
               /\ UNCHANGED <<page, reviews_url>>
    \* review_divs is bound anew by the next page, or dropped by the return
    /\ nodes_left' = FALSE
    /\ UNCHANGED <<coordVars, app_url, app_name, base_url, reviews,
                   attempts, only_503, idx, has_recent_reviews_on_page,
                   review_date_str, review_date, served, feed_in_window,
                   feed_sorted_parsed, older_page>>

\* ------------------------------------------------------- fetch_shopify_apps
\* lines 44-47: a relative href is made absolute
AbsoluteUrl(href) == IF StartsWithHttp(href) THEN href ELSE <<Host>> \o href

\* The listings a developer page can hold, in document order; the first
\* item of a listing is always the first entry.
Listings ==
    { l \in SeqsUpTo(AppEntries, MaxApps) :
        l = <<>> \/ l[1].name = <<"App A">> }

AppLists ==
    { [i \in DOMAIN l |-> [name |-> l[i].name, url |-> AbsoluteUrl(l[i].href)]] :
        l \in Listings }

\* Mutant: a failed GET of the developer page is tried again.
fetch_shopify_apps_retries ==
    /\ pc = "enumerate"
    /\ developer_gets' = developer_gets + 1
    /\ \E status \in ServedStatuses :
          IF status = 200
          THEN apps' \in AppLists /\ pc' = "apps_loop"
          ELSE /\ apps' = <<>>
               /\ pc' = IF developer_gets < RetryTotal
                        THEN "enumerate" ELSE "apps_loop"
    /\ UNCHANGED <<entry, input_url, start_date, end_date, app_i,
                   all_collected_reviews, pagerVars, served, feedVars>>

\* scraper.py 14-50: one GET without retries; a failure gives no items.
fetch_shopify_apps ==
    /\ pc = "enumerate"
    /\ developer_gets' = developer_gets + 1
    /\ \E status \in ServedStatuses :
          IF status = 200
          THEN apps' \in AppLists
          ELSE apps' = <<>>
    /\ pc' = "apps_loop"
    /\ UNCHANGED <<entry, input_url, start_date, end_date, app_i,
                   all_collected_reviews, pagerVars, served, feedVars>>

\* ------------------------------------------------------- run coordinator
\* replace('-', ' ').title() of the handle
Title(handle) == <<"title">> \o handle

\* scraper.py 295-297, app.py 59-61; None when no handle can be derived
app_handle(url) ==
    LET segs == path_segments(url)
    IN IF Len(segs) >= 2 /\ segs[Len(segs)] = <<"reviews">>
       THEN segs[Len(segs) - 1]
       ELSE None

IsDeveloperUrl(url) == Contains(url, <<"/", "partners", "/">>)
IsReviewsUrl(url) == EndsWith(url, <<"/", "reviews">>)

\* Mutant: "/reviews" is looked for anywhere in the locator.
LocatorKind_containsReviews(url) ==
    IF IsDeveloperUrl(url) THEN "developer"
    ELSE IF Contains(url, <<"/", "reviews">>) /\ app_handle(url) # None
    THEN "single"
    ELSE "invalid"

\* scraper.py 276, 292, 298, 315; app.py 37, 56, 62, 79: the branch taken
LocatorKind(url) ==
    IF IsDeveloperUrl(url) THEN "developer"
    ELSE IF IsReviewsUrl(url) /\ app_handle(url) # None THEN "single"
    ELSE "invalid"

\* scraper.py 276-317, app.py 37-81: the locator is resolved.
Resolve ==
    /\ pc = "start"
    /\ IF LocatorKind(input_url) = "developer"
       THEN /\ pc' = "enumerate"
            /\ UNCHANGED <<pagerVars, feedVars>>
       ELSE IF LocatorKind(input_url) = "single"
       THEN CallFetchReviews(<<Host, "/">> \o app_handle(input_url),
                             Title(app_handle(input_url)))
       ELSE /\ pc' = "rejected"
            /\ UNCHANGED <<pagerVars, feedVars>>
    /\ UNCHANGED <<coordVars, served>>

\* scraper.py 281-282, app.py 48-51: the next item of the listing is paged,
\* or the listing is finished.
ForApp ==
    /\ pc = "apps_loop"
    /\ IF app_i < Len(apps)
       THEN /\ app_i' = app_i + 1
            /\ CallFetchReviews(apps[app_i + 1].url, apps[app_i + 1].name)
       ELSE /\ pc' = "done"
            /\ UNCHANGED <<app_i, pagerVars, feedVars>>
    /\ UNCHANGED <<entry, input_url, start_date, end_date, developer_gets,
                   apps, all_collected_reviews, served>>

\* scraper.py 250 and 283-285 / 309-311: fetch_reviews returns its list and
\* the caller tags and merges it.
\* Mutant: a failed fetch returns no records.
Returned_emptyOnFailure == IF stop = "fetch_failed" THEN <<>> ELSE reviews

\* line 250: the list fetch_reviews returns
Returned == reviews

\* Mutant: a failed item ends the run.
AfterReturn_abortOnFailure ==
    IF IsDeveloperUrl(input_url) /\ stop # "fetch_failed"
    THEN "apps_loop" ELSE "done"

\* where the caller goes on after merging: the loop over the listing
\* (scraper.py 281, app.py 48), or the end of the run
AfterReturn == IF IsDeveloperUrl(input_url) THEN "apps_loop" ELSE "done"

\* Mutant: the item's records are merged last first.
Tagged_reversed(revs, name) ==
    [i \in DOMAIN revs |->
        [revs[Len(revs) + 1 - i] EXCEPT !.app_name = name]]

\* review['app_name'] = name, for every review of the list
Tagged(revs, name) ==
    [i \in DOMAIN revs |-> [revs[i] EXCEPT !.app_name = name]]

Return ==
    /\ pc = "return"
    /\ LET name == IF IsDeveloperUrl(input_url) THEN apps[app_i].name
                   ELSE Title(app_handle(input_url))
       IN all_collected_reviews' =
              all_collected_reviews \o Tagged(Returned, name)
    /\ pc' = AfterReturn
    \* the locals of fetch_reviews end with the call; the caller holds the list
    /\ app_url' = <<>>
    /\ app_name' = <<>>
    /\ base_url' = <<>>
    /\ page' = 0
    /\ reviews_url' = <<>>
    /\ idx' = 0
    /\ has_recent_reviews_on_page' = FALSE
    /\ review_date_str' = NoDateText
    /\ review_date' = None
    /\ stop' = "none"
    /\ feed_in_window' = <<>>
    /\ feed_sorted_parsed' = TRUE
    /\ nodes_left' = FALSE
    /\ older_page' = 0
    /\ UNCHANGED <<entry, input_url, start_date, end_date, developer_gets,
                   apps, app_i, reviews, attempts, only_503, served>>

Next ==
    \/ Resolve
    \/ fetch_shopify_apps
    \/ ForApp
    \/ FetchOk
    \/ FetchRetry
    \/ FetchFailed
    \/ ScanNode
    \/ PageEnd
    \/ Return

Spec == Init /\ [][Next]_vars

\* Runs on a locator that is not a developer page: the pager runs at most once.
InitPager == Init /\ ~IsDeveloperUrl(input_url)

NextPager ==
    \/ Resolve
    \/ FetchOk
    \/ FetchRetry
    \/ FetchFailed
    \/ ScanNode
    \/ PageEnd
    \/ Return

SpecPager == InitPager /\ [][NextPager]_vars

\* The same runs, where the program goes on taking its steps: the loop of
\* fetch_reviews is sequential code, and each GET comes back, with a page or
\* with an exception, after its timeout of 10 s and its bounded retries
\* (lines 123-132, 141).
SpecPagerFair == SpecPager /\ WF_vars(NextPager)

\* The fair runs of the pager on a window whose start_date is earlier than
\* its end_date.
InitInverted == InitPager /\ DtLess(start_date, end_date)

SpecInvertedFair ==
    InitInverted /\ [][NextPager]_vars /\ WF_vars(NextPager)

\* ------------------------------------------------------------------ claims
DatesOf(revs) == [i \in DOMAIN revs |-> revs[i].date]

\* The last node scanned was older than the window end.
OlderObserved == review_date # None /\ DtLess(review_date, end_date)

\* The step is one iteration of the scan on a node whose date parsed.
ScannedParsed == pc = "scan" /\ review_date' # None

\* C1: every scanned node whose date parses to d is appended to the list iff
\* end_date <= d <= start_date, and the list never holds a date outside
\* the window.
C1_RetainedIffInWindow ==
    [][ScannedParsed =>
          /\ (DtLeq(end_date, review_date') /\ DtLeq(review_date', start_date))
                => reviews' = Append(reviews, Record(app_name, review_date_str'))
          /\ (DtLess(start_date, review_date') \/ DtLess(review_date', end_date))
                => reviews' = reviews
          /\ \A i \in DOMAIN reviews' :
                /\ DtLeq(end_date, parse_review_date(reviews'[i].date))
                /\ DtLeq(parse_review_date(reviews'[i].date), start_date)]_vars

\* A review dated exactly the window end has just been retained.
C1_Witness ==
    /\ pc \in {"scan", "page_end"}
    /\ review_date = end_date
    /\ DtLess(end_date, start_date)
    /\ reviews # <<>>
    /\ reviews[Len(reviews)].date = review_date_str

\* C2 (as claimed): after a page on which a review older than the window end
\* was observed, the pager never goes on to the next page.
C2_NoPageAfterOlder ==
    [][(pc = "page_end" /\ OlderObserved) => page' = page]_vars

\* C3: on a feed sorted newest-first whose dates all parse and whose fetches
\* all succeed, the pager stops only on a page without nodes or after
\* meeting a review older than the window, and the list it returns is the
\* in-window reviews of the feed, in feed order, each once.
C3_ExactlyInWindow ==
    (pc = "return" /\ stop # "fetch_failed" /\ feed_sorted_parsed) =>
        /\ DatesOf(reviews) = feed_in_window
        /\ stop = "no_reviews" \/ OlderObserved

\* Page 1 held a review in the window, page 2 an older one: the pager
\* returns the one record.
C3_Witness ==
    /\ pc = "return"
    /\ feed_sorted_parsed
    /\ page = 2
    /\ Len(reviews) = 1
    /\ OlderObserved

\* C4: a terminal failure of the fetch of page n ends the pager at once,
\* and the list returned is the list as it was when that fetch began.
C4_FailureKeepsCollected ==
    [][/\ pc = "fetch" => reviews' = reviews
       /\ (pc = "fetch" /\ stop' = "fetch_failed") =>
             (pc' = "return" /\ page' = page)
       /\ (pc = "return" /\ stop = "fetch_failed") =>
             /\ pc' \in {"apps_loop", "done"}
             /\ DatesOf(all_collected_reviews') =
                   DatesOf(all_collected_reviews) \o DatesOf(reviews)]_vars

\* The fetch of page 2 failed after page 1 gave a record, and the pager
\* returns that record.
C4_Witness ==
    /\ pc = "return"
    /\ stop = "fetch_failed"
    /\ page = 2
    /\ Returned # <<>>

IsPrefix(a, b) == Len(a) <= Len(b) /\ SubSeq(b, 1, Len(a)) = a

\* C5: in a run on a developer page, a terminal fetch failure for one item
\* leaves the merged output in place, the item's own records are merged,
\* the next item is paged from its page 1, and the run ends only when
\* every item of the listing has been paged.
C5_FailureNotFatal ==
    [][/\ IsPrefix(all_collected_reviews, all_collected_reviews')
       /\ (pc = "return" /\ stop = "fetch_failed"
              /\ LocatorKind(input_url) = "developer") =>
             /\ pc' = "apps_loop"
             /\ all_collected_reviews' =
                   all_collected_reviews \o Tagged(reviews, apps[app_i].name)
       /\ (pc = "apps_loop" /\ app_i < Len(apps)) =>
             (pc' = "fetch" /\ page' = 1 /\ app_i' = app_i + 1)
       /\ (pc = "apps_loop" /\ pc' = "done") => app_i = Len(apps)]_vars

\* The pager of the second of two items failed on its page 2 with a record
\* of its page 1 kept, the first item's record being in the merged output.
C5_Witness ==
    /\ pc = "return"
    /\ stop = "fetch_failed"
    /\ Len(apps) = 2
    /\ app_i = 2
    /\ page = 2
    /\ reviews # <<>>
    /\ all_collected_reviews # <<>>

\* C6 (as claimed): one GET makes at most 5 HTTP attempts; every step taken
\* while the GET runs is an attempt, the one after `attempts` failed ones.
C6_AtMostFiveAttempts ==
    [][pc = "fetch" => attempts + 1 <= 5]_vars

\* C6 (amended): one GET makes at most RetryTotal + 1 = 6 HTTP attempts, and
\* the attempt made after RetryTotal failed ones is the last: it ends the
\* GET, with the page or with the terminal failure.
C6_AtMostSixAttempts ==
    [][pc = "fetch" =>
          /\ attempts + 1 <= RetryTotal + 1
          /\ attempts = RetryTotal => pc' \in {"scan", "return"}
          /\ pc' = "fetch" => (attempts' = attempts + 1 /\ UNCHANGED reviews_url)]_vars

\* Five attempts were answered 503 and the sixth attempt is about to be made.
C6_Witness ==
    /\ pc = "fetch"
    /\ attempts = 5
    /\ only_503

\* The locator names no developer page, and does not end in "/reviews" or
\* has no path segment before a last segment "reviews".
InvalidLocator(url) ==
    /\ ~Contains(url, <<"/", "partners", "/">>)
    /\ \/ ~EndsWith(url, <<"/", "reviews">>)
       \/ LET segs == path_segments(url)
          IN ~(Len(segs) >= 2 /\ segs[Len(segs)] = <<"reviews">>)

\* C7: such a locator is rejected before any fetch, with empty output.
C7_InvalidRejected ==
    InvalidLocator(input_url) =>
        /\ pc \in {"start", "rejected"}
        /\ developer_gets = 0
        /\ page = 0
        /\ attempts = 0
        /\ all_collected_reviews = <<>>

\* A locator ending in "/reviews" without a handle has been rejected.
C7_Witness ==
    /\ pc = "rejected"
    /\ EndsWith(input_url, <<"/", "reviews">>)
    /\ Len(path_segments(input_url)) < 2

\* The locator is "<host>/<handle>/reviews?<query>".
ReviewsUrlWithQuery(url) ==
    /\ ~Contains(url, <<"/", "partners", "/">>)
    /\ Contains(url, <<"?">>)
    /\ LET segs == path_segments(url)
       IN Len(segs) >= 2 /\ segs[Len(segs)] = <<"reviews">>

\* C8 (as claimed): a locator whose path ends in "/reviews", followed by
\* query parameters, is accepted as a single-item locator.
C8_QueryLocatorAccepted ==
    ReviewsUrlWithQuery(input_url) => pc # "rejected"

\* C9 (as claimed): with a window given as two bare dates, start day on or
\* after end day, a scanned review dated on the start day or on the end day
\* is retained.
C9_BothDaysInclusive ==
    [][(/\ ScannedParsed
        /\ entry = "app"
        /\ start_date[1] >= end_date[1]
        /\ review_date'[1] \in {start_date[1], end_date[1]}) =>
          reviews' = Append(reviews, Record(app_name, review_date_str'))]_vars

\* C10: a failed fetch of the developer page, or a page without items,
\* gives an empty listing after one GET, and the run ends with no item,
\* no review page fetched and no review.
C10_EmptyListing ==
    [][/\ pc = "enumerate" =>
             (developer_gets' = 1 /\ pc' = "apps_loop")
       /\ (pc = "apps_loop" /\ apps = <<>>) =>
             /\ pc' = "done"
             /\ developer_gets' = 1
             /\ page' = 0
             /\ served' = 0
             /\ all_collected_reviews' = <<>>]_vars

\* The run on a developer page without items has ended.
C10_Witness ==
    /\ pc = "done"
    /\ LocatorKind(input_url) = "developer"
    /\ apps = <<>>
    /\ developer_gets = 1

\* C11: a page fetched with success and holding no review node, the first
\* page included, ends the pager at once: the step that receives it leaves
\* the page number and the list as they are and goes to the return, the
\* list is merged as it is, and a page number is only ever moved on from
\* the end of the scan of a page that had nodes.
C11_EmptyPageStops ==
    [][/\ pc = "fetch" => (page' = page /\ reviews' = reviews)
       /\ (pc = "fetch" /\ pc' \notin {"fetch", "scan"}) =>
             (pc' = "return" /\ stop' \in {"no_reviews", "fetch_failed"})
       /\ (pc = "return" /\ stop = "no_reviews") =>
             /\ pc' \in {"apps_loop", "done"}
             /\ DatesOf(all_collected_reviews') =
                   DatesOf(all_collected_reviews) \o DatesOf(reviews)
       /\ (page >= 1 /\ page' > page) =>
             (pc = "page_end" /\ page' = page + 1)]_vars

\* The first page of an item came without nodes and the pager returns.
C11_Witness ==
    /\ pc = "return"
    /\ stop = "no_reviews"
    /\ page = 1
    /\ reviews = <<>>

\* The step is one iteration of the scan on a node whose date did not parse.
ScannedUnparsed == pc = "scan" /\ review_date' = None

\* C12 (as claimed): every scanned node whose date does not parse gets a
\* record in the list.
C12_UnparsedRetained ==
    [][ScannedUnparsed =>
          reviews' = Append(reviews, Record(app_name, review_date_str'))]_vars

\* C12 (amended): a scanned node whose date does not parse is skipped: the
\* list is left as it is, and no record of the list or of the merged output
\* has a date that does not parse.
C12_UnparsedSkipped ==
    [][/\ ScannedUnparsed => reviews' = reviews
       /\ \A i \in DOMAIN reviews' :
             parse_review_date(reviews'[i].date) # None
       /\ \A i \in DOMAIN all_collected_reviews' :
             parse_review_date(all_collected_reviews'[i].date) # None]_vars

\* A record was retained, then a node whose date does not parse was scanned
\* and the list still holds the one record.
C12_Witness ==
    /\ pc = "page_end"
    /\ review_date_str = NoDateText
    /\ review_date = None
    /\ served = 2
    /\ Len(reviews) = 1

\* The item's page URL: the URL handed to the pager without its query
\* string and without a trailing "/reviews".
ItemBaseUrl(url) ==
    LET noQuery == SplitFirst(url, <<"?">>)
    IN IF EndsWith(noQuery, <<"/", "reviews">>)
       THEN SubSeq(noQuery, 1, Len(noQuery) - 2)
       ELSE noQuery

\* C13 (as claimed): whenever the pager requests page n of an item, the URL
\* requested is the item's page URL, handle included, followed by
\* "/reviews?sort_by=newest&page=<n>".
C13_RequestedUrl ==
    pc = "fetch" =>
        reviews_url = ItemBaseUrl(app_url)
            \o <<"/", "reviews", "?", "sort_by=newest", "&page=", ToString(page)>>

\* The pager is in its loop.
InLoop == pc \in {"fetch", "scan", "page_end"}

\* C14: on a feed with finitely many review nodes, whatever the window, a
\* pager whose fetches come back always reaches its return, and a fetch
\* step never moves the page number on, so no page after a page without
\* nodes is asked for.
C14_PagerTerminates ==
    /\ InLoop ~> (pc = "return")
    /\ [][pc = "fetch" => page' = page]_vars

\* Two pages with nodes newer than the window, then a page without nodes:
\* the pager returns after its third page.
C14_Witness ==
    /\ pc = "return"
    /\ stop = "no_reviews"
    /\ page = 3
    /\ served = 2

\* The date is newer than the window or inside it.
NewerOrInside(d) ==
    d # None /\ (DtLess(start_date, d)
                    \/ (DtLeq(d, start_date) /\ DtLeq(end_date, d)))

\* C15: the mark of a page starts unset, and is set by the scan exactly of
\* a review newer than the window or inside it; after the scan of a page
\* n > 1 whose mark is unset the pager stops on page n; after the scan of
\* page 1 on which no review older than the window was met, the pager goes
\* on to fetch page 2.
C15_NoRecentStopsAfterFirst ==
    [][/\ (pc = "fetch" /\ pc' = "scan") => ~has_recent_reviews_on_page'
       /\ pc = "scan" =>
             (has_recent_reviews_on_page' <=>
                 (has_recent_reviews_on_page \/ NewerOrInside(review_date')))
       /\ (pc = "page_end" /\ ~has_recent_reviews_on_page /\ page > 1) =>
             (pc' = "return" /\ page' = page /\ reviews' = reviews)
       /\ (pc = "page_end" /\ page = 1 /\ ~OlderObserved) =>
             /\ pc' = "fetch"
             /\ page' = 2
             /\ reviews_url' = base_url
                   \o <<"/", "reviews", "?", "sort_by=newest", "&page=", "2">>]_vars

\* Page 1 held nodes, none with a date that parses, and page 2 is being
\* fetched.
C15_Witness ==
    /\ pc = "fetch"
    /\ page = 2
    /\ served >= 1
    /\ review_date = None
    /\ ~has_recent_reviews_on_page

\* C16: the scan of a node whose date does not parse changes neither the
\* mark of the page nor the list, and goes on to the next node whenever the
\* page has one; a review inside the window scanned right after such a node
\* on the same page is retained.
C16_UnparsedDoesNotEndScan ==
    [][/\ ScannedUnparsed =>
             /\ has_recent_reviews_on_page' = has_recent_reviews_on_page
             /\ reviews' = reviews
             /\ nodes_left' => (pc' = "scan" /\ idx' = idx + 1)
             /\ ~nodes_left' => pc' = "page_end"
       /\ (/\ pc = "scan"
           /\ idx > 1
           /\ review_date = None
           /\ review_date' # None
           /\ DtLeq(end_date, review_date')
           /\ DtLeq(review_date', start_date)) =>
             reviews' = Append(reviews, Record(app_name, review_date_str'))]_vars

\* Page 1 held a node whose date does not parse, then a review inside the
\* window, which is the one record of the list.
C16_Witness ==
    /\ pc = "page_end"
    /\ page = 1
    /\ served = 2
    /\ ~feed_sorted_parsed
    /\ Len(reviews) = 1
    /\ reviews[1].date = review_date_str

\* C17: the pager of an item starts at page 1, entered from the resolution
\* of the locator or from the loop over the listing with no pager running;
\* the page number moves on by one, and only at the end of the scan of the
\* page; the URL requested is the one of the current page and stays the
\* same while the GET runs; and the next item of the listing is taken only
\* after the pager of the item before it has returned.
C17_SequentialPages ==
    [][/\ (pc # "fetch" /\ pc' = "fetch") =>
             \/ pc \in {"start", "apps_loop"} /\ page = 0 /\ page' = 1
             \/ pc = "page_end" /\ page >= 1 /\ page' = page + 1
       /\ pc' = "fetch" =>
             reviews_url' = base_url'
                 \o <<"/", "reviews", "?", "sort_by=newest", "&page=",
                      ToString(page')>>
       /\ pc = "fetch" => (page' = page /\ reviews_url' = reviews_url)
       /\ pc \in {"scan", "page_end"} => page' \in {page, page + 1}
       /\ pc' = "page_end" => (pc = "scan" /\ page' = page)
       /\ app_i' # app_i =>
             /\ pc = "apps_loop"
             /\ app_i' = app_i + 1
       /\ pc' = "apps_loop" => pc \in {"enumerate", "return"}]_vars

\* The pager of the second item of a listing is fetching its second page.
C17_Witness ==
    /\ pc = "fetch"
    /\ Len(apps) = 2
    /\ app_i = 2
    /\ page = 2

\* C18: in a run on a developer page the items are paged in the order of
\* the listing, each under its own name and URL, duplicates included; the
\* merged output changes only when a pager returns, and then by having
\* that pager's list appended to it, in the list's order, every record
\* under the name of the item; so every record of the merged output bears
\* the name of an item already paged.
C18_MergedInOrder ==
    [][LocatorKind(input_url) = "developer" =>
          /\ (pc = "apps_loop" /\ app_i < Len(apps)) =>
                /\ app_i' = app_i + 1
                /\ app_name' = apps[app_i + 1].name
                /\ app_url' = apps[app_i + 1].url
                /\ reviews' = <<>>
          /\ pc = "scan" =>
                \/ reviews' = reviews
                \/ reviews' = Append(reviews, [app_name |-> apps[app_i].name,
                                               date |-> review_date_str'])
          /\ pc = "return" =>
                all_collected_reviews' = all_collected_reviews \o
                    [i \in DOMAIN reviews |->
                        [app_name |-> apps[app_i].name, date |-> reviews[i].date]]
          /\ pc # "return" => all_collected_reviews' = all_collected_reviews
          /\ \A i \in DOMAIN all_collected_reviews' :
                \E k \in 1..app_i :
                    all_collected_reviews'[i].app_name = apps[k].name]_vars

\* The run on a listing of two items of different names has ended with two
\* records of the first item, of different dates, followed by one of the
\* second.
C18_Witness ==
    /\ pc = "done"
    /\ Len(apps) = 2
    /\ Len(all_collected_reviews) = 3
    /\ all_collected_reviews[1].app_name = apps[1].name
    /\ all_collected_reviews[2].app_name = apps[1].name
    /\ all_collected_reviews[1].date # all_collected_reviews[2].date
    /\ all_collected_reviews[3].app_name = apps[2].name
    /\ apps[1].name # apps[2].name

\* C19: with start_date earlier than end_date no review is ever retained,
\* the list and the merged output stay empty, and the pager still reaches
\* its return on a feed with finitely many review nodes.
C19_InvertedWindowEmpty ==
    /\ [](DtLess(start_date, end_date) =>
             (reviews = <<>> /\ all_collected_reviews = <<>>))
    /\ (DtLess(start_date, end_date) /\ InLoop) ~> (pc = "return")

\* With start_date earlier than end_date, a review dated exactly start_date
\* was scanned on page 2 and the pager returns an empty list.
C19_Witness ==
    /\ pc = "return"
    /\ DtLess(start_date, end_date)
    /\ page = 2
    /\ review_date = start_date
    /\ Returned = <<>>

\* C20: while every date scanned has parsed and the dates have come newest
\* first, once a review older than the window has been met on a page the
\* pager is never on a page later than the one after it, and when the list
\* holds a record it is never on a page after it at all.
C20_BoundedOverFetch ==
    (feed_sorted_parsed /\ older_page > 0) =>
        /\ page <= older_page + 1
        /\ reviews # <<>> => page = older_page

\* Page 1 ended on a review older than the window with nothing retained;
\* page 2 was fetched, began with an older review too, and the pager stops.
C20_Witness ==
    /\ pc = "return"
    /\ feed_sorted_parsed
    /\ older_page = 1
    /\ page = 2
    /\ stop = "no_recent"
    /\ OlderObserved

====
